---- MODULE Spec2Model ----
(***************************************************************************)
(* Model of the Lu.ma event extractor (src/app.py): the profile cache and  *)
(* resolver (get_linkedin_url_from_luma_user), the link extraction of      *)
(* calendar and event pages, the thread-pool fan-out over an event's       *)
(* participant links (fetch_participant_data) and the sequential batch     *)
(* loop of main.                                                           *)
(***************************************************************************)
EXTENDS Integers, Sequences, FiniteSets, TLC

\* Python's None.
None == "None"

(***************************************************************************)
(* Bounds of the model.                                                    *)
(***************************************************************************)
\* Anchors per page drawn for the extraction functions.
MaxAnchors == 2
\* Event URLs a calendar page can list.
MaxEvents == 2
\* Largest value of the "maximum participants" slider that is explored.
MaxCap == 3

\* ThreadPoolExecutor(max_workers=5).
max_workers == 5

\* Links of the wide event page beyond the size of the worker pool.
PoolExtra == 1

\* The slider's default value.
default_max_participants == 50

SeqsUpTo(S, n) == UNION {[1..k -> S] : k \in 0..n}

Min(a, b) == IF a <= b THEN a ELSE b

(***************************************************************************)
(* URLs.  A URL is its path and its query string; urlparse splits them.    *)
(***************************************************************************)
Url(p, q) == [path |-> p, query |-> q]

\* Profile links the pages of the model can carry: two differ only by their
\* query string, the third is another profile.
ProfileLinks == {Url("/user/a", ""), Url("/user/a", "x=1"), Url("/user/b", "")}

\* A variant of clean_url that keeps the query string.
clean_url_keep_query(url) == url

\* clean_url: scheme://netloc/path, the query string dropped.
clean_url(url) == Url(url.path, "")

\* The normalized key the claims speak of: the link without its query string.
NormKey(url) == url.path

Keys == {clean_url(u) : u \in ProfileLinks}
Paths == {NormKey(u) : u \in ProfileLinks}

(***************************************************************************)
(* Profile pages and the discovery of the LinkedIn URL.                    *)
(***************************************************************************)
\* hrefs that linkedin_pattern.match accepts, and the group (www\.)? of each.
LiHrefs == {"https://linkedin.com/in/x", "https://www.linkedin.com/in/y"}
\* linkedin_pattern.match(href)
LiMatch(href) == href \in LiHrefs
\* 'linkedin.com' in href: also hrefs the pattern rejects.
LiContains(href) == href \in LiHrefs \cup {"//linkedin.com/in/z"}
\* What findall returns for an occurrence: the pattern's only group.
LiGroup(occ) == IF occ = "https://www.linkedin.com/in/y" THEN "www." ELSE ""

ProfileHrefs == LiHrefs \cup {"//linkedin.com/in/z", "https://twitter.com/t"}
\* cls: "social-link" (a.social-link), "aria" (aria-label="LinkedIn"), "" (neither).
ProfileAnchors == [href : ProfileHrefs, cls : {"", "social-link", "aria"}]

\* The five name selectors of the resolver, in order; the texts they find.
NameChoices ==
    { <<None, None, None, None, None>>,
      <<"Ann", None, None, None, None>>,
      <<None, None, "Bob", None, None>>,
      <<"Ann", None, "Bob", None, None>> }

\* anchors: the <a> tags in document order; raw: the occurrences of the
\* pattern in the markup outside href attributes; names: see NameChoices.
ProfilePages ==
    [anchors : SeqsUpTo(ProfileAnchors, MaxAnchors),
     raw : SeqsUpTo(LiHrefs, 1),
     names : NameChoices]

\* The items of a sequence that satisfy a test, in order.
RECURSIVE SelectAnchors(_, _)
SelectAnchors(s, cls) ==
    IF s = <<>> THEN <<>>
    ELSE IF Head(s).cls = cls THEN <<Head(s)>> \o SelectAnchors(Tail(s), cls)
    ELSE SelectAnchors(Tail(s), cls)

RECURSIVE SelectHrefContains(_)
SelectHrefContains(s) ==
    IF s = <<>> THEN <<>>
    ELSE IF LiContains(Head(s).href) THEN <<Head(s)>> \o SelectHrefContains(Tail(s))
    ELSE SelectHrefContains(Tail(s))

\* soup.select_one(..) or soup.select_one(..) or ...: the first selector that
\* finds an element gives the name.
RECURSIVE FirstName(_)
FirstName(names) ==
    IF names = <<>> THEN None
    ELSE IF Head(names) # None THEN Head(names)
    ELSE FirstName(Tail(names))

\* Stage (a): the first anchor whose href the pattern matches.
RECURSIVE StageAnchor(_)
StageAnchor(anchors) ==
    IF anchors = <<>> THEN None
    ELSE IF LiMatch(Head(anchors).href) THEN Head(anchors).href
    ELSE StageAnchor(Tail(anchors))

\* The social links: the first of three selections that is not empty.
SocialLinks(anchors) ==
    IF SelectAnchors(anchors, "social-link") # <<>>
    THEN SelectAnchors(anchors, "social-link")
    ELSE IF SelectAnchors(anchors, "aria") # <<>>
    THEN SelectAnchors(anchors, "aria")
    ELSE SelectHrefContains(anchors)

\* Stage (b): the first social link whose href contains 'linkedin.com'.
RECURSIVE StageSocial(_)
StageSocial(links) ==
    IF links = <<>> THEN None
    ELSE IF LiContains(Head(links).href) THEN Head(links).href
    ELSE StageSocial(Tail(links))

\* Stage (c): findall over the markup; matches[0] is the first occurrence's group.
StageRaw(page) ==
    IF page.raw = <<>> THEN None ELSE LiGroup(Head(page.raw))

\* "if not linkedin_url": None and the empty string are both false.
Falsy(x) == x = None \/ x = ""

\* The linkedin_url the resolver computes from a fetched page.
discover_linkedin(page) ==
    LET a == StageAnchor(page.anchors)
        b == StageSocial(SocialLinks(page.anchors))
        ab == IF b # None THEN b ELSE a
    IN  IF Falsy(ab) /\ StageRaw(page) # None THEN StageRaw(page) ELSE ab

\* The result dictionary of a successful resolution.
parse_profile(page) ==
    [linkedin_url |-> discover_linkedin(page), name |-> FirstName(page.names)]

(***************************************************************************)
(* Event pages and the extraction of the participant links.                *)
(***************************************************************************)
\* hrefs of an event page: two relative profile links that differ only by the
\* query string, an absolute profile link, and a link that is no profile.
EventHrefs == {"/user/a", "/user/a?x=1", "https://lu.ma/user/b", "/about"}
\* cls: "host-row" (a.host-row), "lux-menu-trigger-wrapper", "" (neither).
EventAnchors == [href : EventHrefs, cls : {"", "host-row", "lux-menu-trigger-wrapper"}]
\* anchors: the <a> tags in document order; raw: profile URLs that occur in the
\* markup outside href attributes.
EventPages ==
    [anchors : SeqsUpTo(EventAnchors, MaxAnchors),
     raw : SUBSET {"https://lu.ma/user/b"}]

\* The hrefs of a page with more hosts than the pool has workers:
\* /user/p1, /user/p2, ...
PoolHrefs == {"/user/p" \o ToString(i) : i \in 1..(max_workers + PoolExtra)}

\* href.startswith('/user/')
StartsWithUser(href) == href \in {"/user/a", "/user/a?x=1"} \cup PoolHrefs
\* relative_pattern ^/user/[^\s"'<>]+$
RelativeMatch(href) == href \in {"/user/a", "/user/a?x=1"} \cup PoolHrefs
\* user_patterns: https?://(www\.)?lu\.ma/user/... (the /u/ and /p/ patterns
\* have no instance among EventHrefs).
UserPatternMatch(href) == href = "https://lu.ma/user/b"

\* urljoin("https://lu.ma", href), and an absolute URL taken as it is.
urljoin(href) ==
    CASE href = "/user/a" -> Url("/user/a", "")
      [] href = "/user/a?x=1" -> Url("/user/a", "x=1")
      [] href = "https://lu.ma/user/b" -> Url("/user/b", "")
      [] OTHER -> Url(href, "")

Range(s) == {s[i] : i \in DOMAIN s}

\* soup.select('a.host-row') or soup.select('a.lux-menu-trigger-wrapper')
HostLinks(anchors) ==
    IF SelectAnchors(anchors, "host-row") # <<>>
    THEN SelectAnchors(anchors, "host-row")
    ELSE SelectAnchors(anchors, "lux-menu-trigger-wrapper")

\* The links of one structural rule: its elements' hrefs that start with /user/.
RuleLinks(anchors, cls) ==
    {urljoin(a.href) : a \in {x \in Range(SelectAnchors(anchors, cls)) : StartsWithUser(x.href)}}

\* Lines 292-298: the links of the host elements.
SpecificLinks(page) ==
    {urljoin(a.href) : a \in {x \in Range(HostLinks(page.anchors)) : StartsWithUser(x.href)}}

\* Lines 301-319: the patterns over every anchor and over the raw markup.
GenericLinks(page) ==
    {urljoin(a.href) : a \in {x \in Range(page.anchors) : UserPatternMatch(x.href)}}
        \cup {urljoin(r) : r \in page.raw}

\* Lines 321-328: every anchor with a relative profile href.
RelativeLinks(page) ==
    {urljoin(a.href) : a \in {x \in Range(page.anchors) : RelativeMatch(x.href)}}

\* The user_links set extract_event_data returns for a fetched page.
extract_user_links(page) ==
    (IF SpecificLinks(page) # {} THEN SpecificLinks(page) ELSE GenericLinks(page))
        \cup RelativeLinks(page)

(***************************************************************************)
(* Calendar pages and the extraction of the event links.                   *)
(***************************************************************************)
\* The URL typed into the page and the event URLs a calendar can list: event
\* i stands for https://lu.ma/e<i>, 0 for the seed URL.
SeedUrl == 0
EventIds == 1..MaxEvents
\* form: "rel" (/e<i>), "abs" (https://lu.ma/e<i>), "user" (/user/<i>).
CalendarHrefs == [form : {"rel", "abs", "user"}, id : EventIds]
\* cls: "event-link" (a.event-link), "content-link" (a.content-link), "".
CalendarAnchors == [href : CalendarHrefs, cls : {"", "event-link", "content-link"}]
CalendarPages == [anchors : SeqsUpTo(CalendarAnchors, MaxAnchors)]

\* soup.select('a.event-link') or soup.select('a.content-link')
EventLinkElements(anchors) ==
    IF SelectAnchors(anchors, "event-link") # <<>>
    THEN SelectAnchors(anchors, "event-link")
    ELSE SelectAnchors(anchors, "content-link")

\* href.startswith('/') and not href.startswith('/user/')
ClassHrefOk(href) == href.form = "rel"
\* ^/[a-zA-Z0-9]+$ matches, and neither '/user/' nor '/u/' occurs in href
GenericHrefOk(href) == href.form = "rel"

\* The links of one structural rule of the calendar.
CalendarRuleLinks(anchors, cls) ==
    {a.href.id : a \in {x \in Range(SelectAnchors(anchors, cls)) : ClassHrefOk(x.href)}}

CalendarClassLinks(page) ==
    {a.href.id : a \in {x \in Range(EventLinkElements(page.anchors)) : ClassHrefOk(x.href)}}

CalendarGenericLinks(page) ==
    {a.href.id : a \in {x \in Range(page.anchors) : GenericHrefOk(x.href)}}

\* The set of event links extract_event_links_from_calendar finds on a page.
extract_event_links(page) ==
    IF CalendarClassLinks(page) # {} THEN CalendarClassLinks(page)
    ELSE CalendarGenericLinks(page)

\* The lists that hold each element of a set once.
Orderings(S) ==
    {s \in [1..Cardinality(S) -> S] : \A i, j \in 1..Cardinality(S) : s[i] = s[j] => i = j}

\* list(set(event_links)): the elements in an order the code does not choose.
\* Any page can be served for any event URL, so one order stands for them all.
ListOfSet(S) == CHOOSE s \in Orderings(S) : TRUE

(***************************************************************************)
(* The run: main's batch loop, the fan-out and the resolver's cache.       *)
(***************************************************************************)
\* The profile pages the site serves during a run: one with a LinkedIn anchor
\* and a name, one with neither.
ServedProfilePages ==
    { [anchors |-> << [href |-> "https://linkedin.com/in/x", cls |-> ""] >>,
       raw |-> <<>>, names |-> <<"Ann", None, None, None, None>>],
      [anchors |-> <<>>, raw |-> <<>>, names |-> <<None, None, None, None, None>>] }

\* What a resolution returns: a result dictionary (ok), or None (not ok).
Resolved(page) ==
    [ok |-> TRUE, linkedin_url |-> parse_profile(page).linkedin_url,
     name |-> parse_profile(page).name]
NoResult == [ok |-> FALSE, linkedin_url |-> None, name |-> None]

\* A future that was never submitted.
NoTask == [st |-> "none", attempts |-> 0, result |-> NoResult]

VARIABLES
    pc,               \* where main is: "idle", "extract", "fanout", "done"
    max_participants, \* the slider's value
    event_urls,       \* the list main iterates over
    idx,              \* the position of the loop in event_urls
    events_data,      \* the event records appended so far
    all_participants, \* event URL -> its participant rows
    linkedin_cache,   \* the module-level cache: cleaned URL -> result
    user_links,       \* the links given to the fan-out in progress
    task,             \* per submitted link: its future and the worker's position
    participants,     \* the rows fetch_participant_data has appended so far
    fetch_count,      \* history: GETs issued per normalized key
    overlapped,       \* history: keys for which two resolutions were in flight at once
    event_log,        \* history: per event URL, the fetch's outcome and the links found
    probe             \* the extraction function applied to a page, and its result

vars == <<pc, max_participants, event_urls, idx, events_data, all_participants,
          linkedin_cache, user_links, task, participants, fetch_count, overlapped,
          event_log, probe>>

run_vars == <<pc, max_participants, event_urls, idx, events_data, all_participants,
              linkedin_cache, user_links, task, participants, fetch_count, overlapped,
              event_log>>

NoProbe == [fn |-> "none"]

Init ==
    /\ pc = "idle"
    /\ max_participants = 1
    /\ event_urls = <<>>
    /\ idx = 1
    /\ events_data = <<>>
    /\ all_participants = << >>
    /\ linkedin_cache = << >>
    /\ user_links = {}
    /\ task = [u \in ProfileLinks |-> NoTask]
    /\ participants = <<>>
    /\ fetch_count = [p \in Paths |-> 0]
    /\ overlapped = {}
    /\ event_log = << >>
    /\ probe = NoProbe

\* The event lists a calendar page can expand to (lines 196-224).
CalendarLists ==
    {ListOfSet(extract_event_links(p)) : p \in CalendarPages}

\* Lines 507-527: the button is pressed; the seed URL is expanded into the
\* calendar's event links, or kept as the only event URL.
StartWith(caps, lists) ==
    /\ pc = "idle"
    /\ \E k \in caps : max_participants' = k
    /\ \/ \E links \in lists :                       \* the calendar page is fetched
             event_urls' = IF links # <<>> THEN links ELSE <<SeedUrl>>
       \/ event_urls' = <<SeedUrl>>                  \* non-200 status: []
       \/ event_urls' = <<SeedUrl>>                  \* an exception: []
       \/ event_urls' = <<SeedUrl>>                  \* process_all_calendar_events off
    /\ pc' = "extract"
    /\ UNCHANGED <<idx, events_data, all_participants, linkedin_cache, user_links,
                   task, participants, fetch_count, overlapped, event_log, probe>>

StartExtraction == StartWith(1..MaxCap, CalendarLists)

\* The user_links sets an event page can yield (lines 288-328).
EventExtractions == {extract_user_links(p) : p \in EventPages}

\* A variant of the cap that keeps every link.
capped_links_uncapped(links, k) == {links}

\* list(user_links)[:max_participants]: some max_participants of the links.
capped_links(links, k) ==
    IF Cardinality(links) > k
    THEN {S \in SUBSET links : Cardinality(S) = k}
    ELSE {links}

\* A variant of the count taken after the cap.
participant_count_post_cap(links, k) == Min(Cardinality(links), k)

\* event_data["participant_count"] = len(user_links), line 331.
participant_count(links, k) == Cardinality(links)

\* What the history keeps of an event: the outcome of its one GET, the links
\* found on its page and the links given to the fan-out.
Logged(status, links, given) ==
    [status |-> status, candidates |-> links, given |-> given, gets |-> 1]

\* One iteration of main's loop up to the submission of the fan-out
\* (lines 531-547, 248-342, 356-369): the event page is fetched once; a failed
\* fetch or an empty link set skips the event.
ExtractEventOf(extractions) ==
    /\ pc = "extract"
    /\ idx <= Len(event_urls)
    /\ LET url == event_urls[idx]
           skip(status, links) ==
               /\ event_log' = (url :> Logged(status, links, {})) @@ event_log
               /\ idx' = idx + 1
               /\ UNCHANGED <<pc, events_data, user_links, task, participants>>
       IN  \/ skip("failed", {})                     \* non-200 status: None, []
           \/ skip("failed", {})                     \* an exception: None, []
           \/ \E links \in extractions :
                 IF links = {}
                 THEN skip("ok", {})                 \* "if event_data and user_links"
                 ELSE /\ events_data' = Append(events_data,
                             [event_url |-> url,
                              participant_count |-> participant_count(links, max_participants)])
                      /\ \E given \in capped_links(links, max_participants) :
                            /\ user_links' = given
                            /\ event_log' = (url :> Logged("ok", links, given)) @@ event_log
                            /\ task' = [u \in DOMAIN task |->
                                  IF u \in given THEN [NoTask EXCEPT !.st = "queued"]
                                  ELSE NoTask]
                      /\ participants' = <<>>
                      /\ pc' = "fanout"
                      /\ idx' = idx
    /\ UNCHANGED <<max_participants, event_urls, all_participants, linkedin_cache,
                   fetch_count, overlapped, probe>>

ExtractEvent == ExtractEventOf(EventExtractions)

\* The resolutions that hold a worker thread: past the cache check, not returned.
InFlight == {u \in DOMAIN task : task[u].st \in {"fetching", "got"}}

\* A variant of the pool that starts every submitted call at once.
WorkerFree_unbounded == TRUE

\* ThreadPoolExecutor(max_workers=5): a queued call starts when fewer than
\* max_workers calls are running.
WorkerFree == Cardinality(InFlight) < max_workers

\* Lines 104-109: a worker takes the queued call, cleans the URL and looks
\* it up in the cache; a hit returns the cached value.
TaskCheck(u) ==
    /\ pc = "fanout"
    /\ task[u].st = "queued"
    /\ WorkerFree
    /\ IF clean_url(u) \in DOMAIN linkedin_cache
       THEN task' = [task EXCEPT ![u].st = "done",
                                 ![u].result = linkedin_cache[clean_url(u)]]
       ELSE task' = [task EXCEPT ![u].st = "fetching"]
    /\ overlapped' = IF \E v \in InFlight : NormKey(v) = NormKey(u)
                     THEN overlapped \cup {NormKey(u)} ELSE overlapped
    /\ UNCHANGED <<pc, max_participants, event_urls, idx, events_data, all_participants,
                   linkedin_cache, user_links, participants, fetch_count, event_log,
                   probe>>

\* A variant of the request that tries again after a failure.
TaskGet_retry(u) ==
    /\ pc = "fanout"
    /\ task[u].st = "fetching"
    /\ fetch_count' = [fetch_count EXCEPT ![NormKey(u)] = @ + 1]
    /\ \/ /\ task[u].attempts < 2
          /\ task' = [task EXCEPT ![u].attempts = @ + 1]
       \/ \E page \in ServedProfilePages :
             task' = [task EXCEPT ![u].st = "got", ![u].attempts = @ + 1,
                                  ![u].result = Resolved(page)]
    /\ UNCHANGED <<pc, max_participants, event_urls, idx, events_data, all_participants,
                   linkedin_cache, user_links, participants, overlapped, event_log,
                   probe>>

\* Lines 111-161: the one requests.get of the resolution and the parsing of
\* its response; the result is in hand, not yet in the cache.
TaskGet(u) ==
    /\ pc = "fanout"
    /\ task[u].st = "fetching"
    /\ fetch_count' = [fetch_count EXCEPT ![NormKey(u)] = @ + 1]
    /\ \/ task' = [task EXCEPT ![u].st = "got", ![u].attempts = @ + 1,
                               ![u].result = NoResult]     \* status != 200
       \/ task' = [task EXCEPT ![u].st = "got", ![u].attempts = @ + 1,
                               ![u].result = NoResult]     \* an exception
       \/ \E page \in ServedProfilePages :
             task' = [task EXCEPT ![u].st = "got", ![u].attempts = @ + 1,
                                  ![u].result = Resolved(page)]
    /\ UNCHANGED <<pc, max_participants, event_urls, idx, events_data, all_participants,
                   linkedin_cache, user_links, participants, overlapped, event_log,
                   probe>>

\* Lines 120-121, 162-163, 167-168: the result (or None) is stored in the
\* cache and returned.
TaskStore(u) ==
    /\ pc = "fanout"
    /\ task[u].st = "got"
    /\ linkedin_cache' = (clean_url(u) :> task[u].result) @@ linkedin_cache
    /\ task' = [task EXCEPT ![u].st = "done"]
    /\ UNCHANGED <<pc, max_participants, event_urls, idx, events_data, all_participants,
                   user_links, participants, fetch_count, overlapped, event_log, probe>>

\* Lines 380-398: the row of a finished future.
participant_row(u, result) ==
    [luma_profile |-> u,
     name |-> IF result.ok THEN result.name ELSE None,
     linkedin_url |-> IF result.ok THEN result.linkedin_url ELSE None]

\* Lines 372-402: as_completed hands over a finished future; its row is appended.
Collect(u) ==
    /\ pc = "fanout"
    /\ task[u].st = "done"
    /\ participants' = Append(participants, participant_row(u, task[u].result))
    /\ task' = [task EXCEPT ![u].st = "consumed"]
    /\ UNCHANGED <<pc, max_participants, event_urls, idx, events_data, all_participants,
                   linkedin_cache, user_links, fetch_count, overlapped, event_log, probe>>

\* A variant that leaves the pool without waiting for its workers.
EndFanout_nowait ==
    /\ pc = "fanout"
    /\ all_participants' = (event_urls[idx] :> participants) @@ all_participants
    /\ idx' = idx + 1
    /\ pc' = "extract"
    /\ UNCHANGED <<max_participants, event_urls, events_data, linkedin_cache, user_links,
                   task, participants, fetch_count, overlapped, event_log, probe>>

\* Lines 404, 547-551: every future was consumed; the rows are recorded under
\* the event's URL and the loop moves on.
EndFanout ==
    /\ pc = "fanout"
    /\ \A u \in user_links : task[u].st = "consumed"
    /\ all_participants' = (event_urls[idx] :> participants) @@ all_participants
    /\ idx' = idx + 1
    /\ pc' = "extract"
    /\ user_links' = {}
    /\ task' = [u \in DOMAIN task |-> NoTask]
    /\ participants' = <<>>
    /\ UNCHANGED <<max_participants, event_urls, events_data, linkedin_cache,
                   fetch_count, overlapped, event_log, probe>>

\* Lines 553-617: the loop is over.
Finish ==
    /\ pc = "extract"
    /\ idx > Len(event_urls)
    /\ pc' = "done"
    /\ UNCHANGED <<max_participants, event_urls, idx, events_data, all_participants,
                   linkedin_cache, user_links, task, participants, fetch_count,
                   overlapped, event_log, probe>>

Next ==
    \/ StartExtraction
    \/ ExtractEvent
    \/ \E u \in DOMAIN task : TaskCheck(u)
    \/ \E u \in DOMAIN task : TaskGet(u)
    \/ \E u \in DOMAIN task : TaskStore(u)
    \/ \E u \in DOMAIN task : Collect(u)
    \/ EndFanout
    \/ Finish

Spec == Init /\ [][Next]_vars

\* The steps a thread takes on its own are taken in the end.  The steps that
\* wait for the site (requests.get is called without a timeout, lines 117,
\* 187, 250) are taken when the site answers, which nothing guarantees.
LiveSpec ==
    /\ Spec
    /\ \A u \in ProfileLinks :
          WF_vars(TaskCheck(u)) /\ WF_vars(TaskStore(u)) /\ WF_vars(Collect(u))
    /\ WF_vars(EndFanout)
    /\ WF_vars(Finish)

(***************************************************************************)
(* A run over an event page with more hosts than the pool has workers.     *)
(***************************************************************************)
\* The page: one a.host-row anchor per href of PoolHrefs.
PoolPage ==
    [anchors |-> ListOfSet({[href |-> h, cls |-> "host-row"] : h \in PoolHrefs}),
     raw |-> {}]

PoolLinks == extract_user_links(PoolPage)

InitPool ==
    /\ pc = "idle"
    /\ max_participants = 1
    /\ event_urls = <<>>
    /\ idx = 1
    /\ events_data = <<>>
    /\ all_participants = << >>
    /\ linkedin_cache = << >>
    /\ user_links = {}
    /\ task = [u \in PoolLinks |-> NoTask]
    /\ participants = <<>>
    /\ fetch_count = [p \in {NormKey(u) : u \in PoolLinks} |-> 0]
    /\ overlapped = {}
    /\ event_log = << >>
    /\ probe = NoProbe

\* The slider is left at its default, which is above the number of hosts,
\* and the seed URL is the one event: its page is the wide page.
StartPool == StartWith({default_max_participants}, {})

ExtractEventPool == ExtractEventOf({extract_user_links(PoolPage)})

\* The site answers every profile request of this run with a non-200 status
\* or not at all (an exception).
PoolGet(u) == TaskGet(u) /\ ~task'[u].result.ok

NextPool ==
    \/ StartPool
    \/ ExtractEventPool
    \/ \E u \in DOMAIN task : TaskCheck(u)
    \/ \E u \in DOMAIN task : PoolGet(u)
    \/ \E u \in DOMAIN task : TaskStore(u)
    \/ \E u \in DOMAIN task : Collect(u)
    \/ EndFanout
    \/ Finish

SpecPool == InitPool /\ [][NextPool]_vars

(***************************************************************************)
(* The extraction functions applied to pages drawn from the page sets.     *)
(***************************************************************************)
ProbeProfile ==
    /\ probe = NoProbe
    /\ \E page \in ProfilePages :
          probe' = [fn |-> "profile", page |-> page, out |-> discover_linkedin(page)]
    /\ UNCHANGED run_vars

ProbeEvent ==
    /\ probe = NoProbe
    /\ \E page \in EventPages :
          probe' = [fn |-> "event", page |-> page, out |-> extract_user_links(page)]
    /\ UNCHANGED run_vars

ProbeCalendar ==
    /\ probe = NoProbe
    /\ \E page \in CalendarPages :
          probe' = [fn |-> "calendar", page |-> page, out |-> extract_event_links(page)]
    /\ UNCHANGED run_vars

NextExtract == ProbeProfile \/ ProbeEvent \/ ProbeCalendar

SpecExtract == Init /\ [][NextExtract]_vars

(***************************************************************************)
(* The claims.                                                             *)
(***************************************************************************)
Returned(u) == task[u].st \in {"got", "done", "consumed"}

RecordedUrls == {events_data[i].event_url : i \in 1..Len(events_data)}

\* Every participant row of the run: the recorded ones and those of the
\* fan-out in progress.
AllRows ==
    UNION {Range(all_participants[e]) : e \in DOMAIN all_participants}
        \cup Range(participants)

\* C1: of two resolutions of one fan-out whose links share the normalized key,
\* at most one performs the profile fetch.
C1_AtMostOneFetchPerKey ==
    \A u, v \in user_links :
        (u # v /\ NormKey(u) = NormKey(v))
            => ~(task[u].attempts >= 1 /\ task[v].attempts >= 1)

\* C2: for a normalized key whose resolutions never overlapped in time, at
\* most one GET is issued in the run: a later resolution of the same link, or
\* of a link that differs by its query string only, is a cache hit, also when
\* the first resolution failed and stored None.
C2_SequentialFetchOnce ==
    \A p \in Paths : p \notin overlapped => fetch_count[p] <= 1

\* C2's case: the link with a query string was resolved by a cache hit that
\* returned the None an earlier event's resolution of the plain link stored.
C2_Witness ==
    /\ pc = "fanout"
    /\ task[Url("/user/a", "x=1")].st = "done"
    /\ task[Url("/user/a", "x=1")].attempts = 0
    /\ ~task[Url("/user/a", "x=1")].result.ok
    /\ fetch_count["/user/a"] = 1
    /\ "/user/a" \notin overlapped
    /\ \E e \in DOMAIN all_participants :
          \E i \in 1..Len(all_participants[e]) :
              all_participants[e][i].luma_profile = Url("/user/a", "")

C4_FirstStageWins ==
    probe.fn = "profile" =>
        LET a == StageAnchor(probe.page.anchors)
            b == StageSocial(SocialLinks(probe.page.anchors))
        IN  /\ a # None => probe.out = a
            /\ (a = None /\ b # None) => probe.out = b
            /\ (a = None /\ b = None) => probe.out = StageRaw(probe.page)

\* C5: the links extracted are those of the first structural rule that yields
\* a link; the regular-expression scans contribute only when no structural
\* rule yielded any.
C5_FirstRuleWins ==
    /\ probe.fn = "event" =>
          LET r1 == RuleLinks(probe.page.anchors, "host-row")
              r2 == RuleLinks(probe.page.anchors, "lux-menu-trigger-wrapper")
          IN  probe.out =
                 IF r1 # {} THEN r1
                 ELSE IF r2 # {} THEN r2
                 ELSE GenericLinks(probe.page) \cup RelativeLinks(probe.page)
    /\ probe.fn = "calendar" =>
          LET r1 == CalendarRuleLinks(probe.page.anchors, "event-link")
              r2 == CalendarRuleLinks(probe.page.anchors, "content-link")
          IN  probe.out =
                 IF r1 # {} THEN r1
                 ELSE IF r2 # {} THEN r2
                 ELSE CalendarGenericLinks(probe.page)

\* C6: an event record's participant_count is the number of links found on
\* its page; the fan-out yields one row per link it is given, and the row of
\* a resolution that returned None has neither name nor LinkedIn URL.
C6_CountAndRows ==
    /\ \A i \in 1..Len(events_data) :
          events_data[i].participant_count =
              Cardinality(event_log[events_data[i].event_url].candidates)
    /\ \A e \in DOMAIN all_participants :
          /\ Len(all_participants[e]) = Cardinality(event_log[e].given)
          /\ {r.luma_profile : r \in Range(all_participants[e])} = event_log[e].given
    /\ pc = "fanout" =>
          /\ {r.luma_profile : r \in Range(participants)}
                 = {u \in user_links : task[u].st = "consumed"}
          /\ Len(participants) = Cardinality({u \in user_links : task[u].st = "consumed"})
          /\ \A r \in Range(participants) :
                ~task[r.luma_profile].result.ok
                    => (r.name = None /\ r.linkedin_url = None)

\* C6's case: three links, two resolved to a LinkedIn URL and one whose fetch
\* failed: participant_count 3 and three rows, one of them with both fields absent.
C6_Witness ==
    /\ pc = "fanout"
    /\ Cardinality(user_links) = 3
    /\ Len(participants) = 3
    /\ events_data[Len(events_data)].participant_count = 3
    /\ Cardinality({i \in 1..3 : participants[i].linkedin_url # None}) = 2
    /\ \E i \in 1..3 :
          /\ participants[i].linkedin_url = None
          /\ participants[i].name = None
          /\ task[participants[i].luma_profile].attempts = 1
          /\ ~task[participants[i].luma_profile].result.ok

\* C7: an event with n links found and the cap k gets min(k, n) rows, and is
\* recorded as an event all the same.
C7_CapRows ==
    \A e \in DOMAIN all_participants :
        /\ Len(all_participants[e]) =
               Min(max_participants, Cardinality(event_log[e].candidates))
        /\ e \in RecordedUrls

\* C7's case: more links found than the cap allows.
C7_Witness ==
    \E e \in DOMAIN all_participants :
        /\ Cardinality(event_log[e].candidates) = 3
        /\ max_participants = 2
        /\ Len(all_participants[e]) = 2
        /\ e \in RecordedUrls

\* C8: an event whose fetch failed contributes no record and no rows, and
\* every later event whose fetch succeeded is in the output.
C8_FailureIsolated ==
    pc = "done" =>
        \A i, j \in 1..Len(event_urls) :
            (i < j /\ event_log[event_urls[i]].status = "failed"
                   /\ event_log[event_urls[j]].status = "ok")
                => /\ event_urls[i] \notin RecordedUrls
                   /\ event_urls[i] \notin DOMAIN all_participants
                   /\ event_urls[j] \in RecordedUrls

\* C9: a cache entry, once written, is never overwritten or changed.
C9_CacheEntryImmutable ==
    [][\A k \in DOMAIN linkedin_cache :
          /\ k \in DOMAIN linkedin_cache'
          /\ linkedin_cache'[k] = linkedin_cache[k]]_vars

\* C10: rows whose profile links share the normalized key carry the same
\* name and the same LinkedIn URL.
C10_RowsAgreePerKey ==
    \A r1, r2 \in AllRows :
        NormKey(r1.luma_profile) = NormKey(r2.luma_profile)
            => (r1.name = r2.name /\ r1.linkedin_url = r2.linkedin_url)

\* C11: every event whose page was fetched successfully has exactly one
\* record in the output, with participant_count 0 and an empty participant
\* list when its page had no participant link.
C11_FetchedEventRecorded ==
    pc = "done" =>
        \A i \in 1..Len(event_urls) :
            event_log[event_urls[i]].status = "ok"
                => /\ Cardinality({k \in 1..Len(events_data) :
                          events_data[k].event_url = event_urls[i]}) = 1
                   /\ event_log[event_urls[i]].candidates = {}
                         => \E k \in 1..Len(events_data) :
                               /\ events_data[k].event_url = event_urls[i]
                               /\ events_data[k].participant_count = 0

\* C12: at no time are more than max_workers (5) resolutions in flight.
C12_AtMostFiveInFlight == Cardinality(InFlight) <= max_workers

\* C12's case: the pool is full and a submitted call is still waiting.
C12_Witness ==
    /\ pc = "fanout"
    /\ Cardinality(InFlight) = max_workers
    /\ \E u \in DOMAIN task : task[u].st = "queued"

\* C13: when an event's page has been fetched, every earlier event is over:
\* its page was fetched and the rows of all its resolutions are recorded; and
\* the resolutions that are submitted or running are those of the one event
\* whose fan-out is in progress.
C13_EventsSequential ==
    /\ \A i \in 1..Len(event_urls) :
          event_urls[i] \in DOMAIN event_log =>
              \A j \in 1..(i - 1) :
                  /\ event_urls[j] \in DOMAIN event_log
                  /\ event_log[event_urls[j]].given # {} =>
                        /\ event_urls[j] \in DOMAIN all_participants
                        /\ Len(all_participants[event_urls[j]])
                               = Cardinality(event_log[event_urls[j]].given)
    /\ \A u \in DOMAIN task :
          task[u].st # "none" =>
              /\ pc = "fanout"
              /\ event_urls[idx] \in DOMAIN event_log
              /\ u \in event_log[event_urls[idx]].given

\* C13's case: the second event's resolutions are in flight and the first
\* event's rows are recorded.
C13_Witness ==
    /\ pc = "fanout"
    /\ idx = 2
    /\ InFlight # {}
    /\ event_urls[1] \in DOMAIN all_participants
    /\ Len(all_participants[event_urls[1]]) >= 2

\* C14: every resolution that is fetching leaves that state, and a run that
\* has started its fan-out completes.
C14_ResolutionsAndRunEnd ==
    /\ \A u \in ProfileLinks : (task[u].st = "fetching") ~> Returned(u)
    /\ (pc = "fanout") ~> (pc = "done")

====
